---- MODULE Spec2Model ----
(***************************************************************************)
(* A model of server.py, the Flask backend of yt-downloader-wasm: the      *)
(* three extraction backends (yt-dlp, Invidious, Piped), the Piped         *)
(* instance pool with its bounded retry loop, the format selector of the   *)
(* upload path and the temporary file of POST /api/upload-s3.              *)
(*                                                                         *)
(* Python strings that the code parses are sequences of one-character      *)
(* strings; None and "" are both the empty sequence where the code only    *)
(* tests truthiness.  Exceptions are records [text |-> ..., ...].          *)
(***************************************************************************)
EXTENDS Integers, Sequences, FiniteSets, TLC

VARIABLES
    PIPED_SELF_HOSTED_URL, \* server.py:103, "" when PIPED_API_URL is unset
    PIPED_INSTANCES,       \* server.py:47-101, the configured pool
    PIPED_MAX_ATTEMPTS,    \* server.py:287
    DEFAULT_BACKEND,       \* server.py:38-43
    pc,                    \* position of the request thread
    handler,               \* "none", "get_video" or "upload_to_s3"
    url,                   \* the request's url (characters), <<>> when missing
    backend,               \* the effective backend of the request
    quality,               \* the request's quality hint (characters)
    video_id,              \* extract_video_id(url), <<>> for None
    info,                  \* the adapter's result inside the handler
    selected_format,       \* upload_to_s3's selected_format
    tmpfile,               \* whether /tmp/yt_<id>.mp4 of this request exists
    invoked,               \* the backends called while serving the request
    fetched,               \* whether urlopen was called on a stream URL
    s3_objects,            \* the number of objects put into the bucket
    http_response,         \* the response of the handler
    instances,             \* get_video_info_piped: the shuffled list
    idx,                   \* get_video_info_piped: position of the for loop
    tried,                 \* get_video_info_piped: tried
    last_error,            \* get_video_info_piped: last_error
    attempts,              \* the requests sent to Piped endpoints, in order
    outcome,               \* what the adapter returned or raised
    raw                    \* the backend's raw format list (pure checks)

vars == <<PIPED_SELF_HOSTED_URL, PIPED_INSTANCES, PIPED_MAX_ATTEMPTS,
          DEFAULT_BACKEND, pc, handler, url, backend, quality, video_id, info,
          selected_format, tmpfile, invoked, fetched, s3_objects,
          http_response, instances, idx, tried, last_error, attempts,
          outcome, raw>>

config == <<PIPED_SELF_HOSTED_URL, PIPED_INSTANCES, PIPED_MAX_ATTEMPTS,
            DEFAULT_BACKEND>>

request == <<handler, url, backend, quality, video_id>>

pipedFrame == <<instances, idx, tried, last_error>>

sink == <<selected_format, tmpfile, fetched, s3_objects>>

(***************************************************************************)
(* Bounds of the model.                                                    *)
(***************************************************************************)
\* The largest Piped pool a resolution is checked with.
MaxInstances == 3
\* The largest PIPED_MAX_ATTEMPTS a resolution is checked with.
MaxAttempts == 2
\* The pool size of the server specification.
ServerInstances == 2
\* The longest raw format list the adapters' parsers are checked with.
MaxStreams == 2
\* The longest generated quality hint.
MaxHintLen == 3
\* The longest candidate list the selector is checked with.
MaxCandidates == 3

(***************************************************************************)
(* Characters, digits and the regular expressions of the code.             *)
(***************************************************************************)
Digits == <<"0", "1", "2", "3", "4", "5", "6", "7", "8", "9">>

IsDigit(c) == \E d \in 1..10 : Digits[d] = c

DigitVal(c) == (CHOOSE d \in 1..10 : Digits[d] = c) - 1

RECURSIVE ParseInt(_)
\* int(s) of a non-empty sequence of digits
ParseInt(s) ==
    IF s = <<>> THEN 0
    ELSE 10 * ParseInt(SubSeq(s, 1, Len(s) - 1)) + DigitVal(s[Len(s)])

RECURSIVE IntChars(_)
\* str(n) of a positive integer
IntChars(n) ==
    IF n < 10 THEN <<Digits[n + 1]>>
    ELSE Append(IntChars(n \div 10), Digits[(n % 10) + 1])

\* the number of digits s starts with
LeadingDigits(s) ==
    LET stops == {i \in 1..Len(s) : ~IsDigit(s[i])}
    IN  IF stops = {} THEN Len(s)
        ELSE (CHOOSE i \in stops : \A j \in stops : i <= j) - 1

\* the number of digits s ends with
TrailingDigits(s) ==
    LET stops == {i \in 1..Len(s) : ~IsDigit(s[i])}
    IN  IF stops = {} THEN Len(s)
        ELSE Len(s) - (CHOOSE i \in stops : \A j \in stops : i >= j)

\* re.match(r"(\d+)p", s): group 1 as an integer, 0 when there is no match.
\* The callers use the value only when the match exists, and a matched
\* label of value 0 is dropped by their height test like a missing one.
MatchHeightLabel(s) ==
    LET k == LeadingDigits(s)
    IN  IF k >= 1 /\ Len(s) > k /\ s[k + 1] = "p"
        THEN ParseInt(SubSeq(s, 1, k))
        ELSE 0

\* re.search(r"(\d+)p?$", s): group 1 as an integer, -1 when no match.
\* $ matches at the end and before a newline that ends the string.
SearchTrailingHeight(s) ==
    LET t == IF s # <<>> /\ s[Len(s)] = "\n" THEN SubSeq(s, 1, Len(s) - 1) ELSE s
        u == IF t # <<>> /\ t[Len(t)] = "p" THEN SubSeq(t, 1, Len(t) - 1) ELSE t
        k == TrailingDigits(u)
    IN  IF k >= 1 THEN ParseInt(SubSeq(u, Len(u) - k + 1, Len(u))) ELSE -1

IdChars ==
    {"a", "b", "c", "d", "e", "f", "g", "h", "i", "j", "k", "l", "m", "n", "o",
     "p", "q", "r", "s", "t", "u", "v", "w", "x", "y", "z",
     "A", "B", "C", "D", "E", "F", "G", "H", "I", "J", "K", "L", "M", "N", "O",
     "P", "Q", "R", "S", "T", "U", "V", "W", "X", "Y", "Z",
     "0", "1", "2", "3", "4", "5", "6", "7", "8", "9", "_", "-"}

IdLen == 11

UrlPrefixes ==
    << <<"y", "o", "u", "t", "u", "b", "e", ".", "c", "o", "m", "/",
         "w", "a", "t", "c", "h", "?", "v", "=">>,
       <<"y", "o", "u", "t", "u", ".", "b", "e", "/">>,
       <<"y", "o", "u", "t", "u", "b", "e", ".", "c", "o", "m", "/",
         "e", "m", "b", "e", "d", "/">> >>

HasAt(s, p, i) ==
    /\ i + Len(p) - 1 <= Len(s)
    /\ \A k \in 1..Len(p) : s[i + k - 1] = p[k]

\* the character class written without "_" and "-"
IsIdAtAlnum(s, i) ==
    /\ i + IdLen - 1 <= Len(s)
    /\ \A k \in 0..(IdLen - 1) : s[i + k] \in IdChars \ {"_", "-"}

IsIdAt(s, i) ==
    /\ i + IdLen - 1 <= Len(s)
    /\ \A k \in 0..(IdLen - 1) : s[i + k] \in IdChars

\* the first pattern matches at position i through alternative a
PrefixMatch(s, i, a) == HasAt(s, UrlPrefixes[a], i) /\ IsIdAt(s, i + Len(UrlPrefixes[a]))

\* extract_video_id: the ID, or <<>> for None
extract_video_id(s) ==
    LET hits == {i \in 1..Len(s) : \E a \in 1..3 : PrefixMatch(s, i, a)}
        bare == IF s # <<>> /\ s[Len(s)] = "\n" THEN SubSeq(s, 1, Len(s) - 1) ELSE s
    IN  IF hits # {}
        THEN LET i == CHOOSE h \in hits : \A g \in hits : h <= g
                 a == CHOOSE b \in 1..3 :
                        /\ PrefixMatch(s, i, b)
                        /\ \A c \in 1..3 : PrefixMatch(s, i, c) => b <= c
                 from == i + Len(UrlPrefixes[a])
             IN  SubSeq(s, from, from + IdLen - 1)
        ELSE IF Len(bare) = IdLen /\ IsIdAt(bare, 1)
        THEN bare
        ELSE <<>>

(***************************************************************************)
(* Sequences.                                                              *)
(***************************************************************************)
Range(s) == {s[i] : i \in 1..Len(s)}

SeqsUpTo(S, n) == UNION {[1..k -> S] : k \in 0..n}

\* random.shuffle: every order of the list
Shuffles(s) ==
    LET n == Len(s)
    IN  {[i \in 1..n |-> s[p[i]]] :
           p \in {f \in [1..n -> 1..n] : \A i, j \in 1..n : f[i] = f[j] => i = j}}

RECURSIVE DedupByHeight(_, _)
\* the seen_heights loop: the first entry of every height, in order
DedupByHeight(fs, seen) ==
    IF fs = <<>> THEN <<>>
    ELSE IF fs[1].height \in seen THEN DedupByHeight(Tail(fs), seen)
    ELSE <<fs[1]>> \o DedupByHeight(Tail(fs), seen \cup {fs[1].height})

RECURSIVE InsertDesc(_, _)
\* f put behind the entries of s that are at least as high
InsertDesc(s, f) ==
    IF s = <<>> THEN <<f>>
    ELSE IF s[1].height >= f.height THEN <<s[1]>> \o InsertDesc(Tail(s), f)
    ELSE <<f>> \o s

\* the list left in the order of the response
SortForgotten(fs) == fs

RECURSIVE SortByHeightDesc(_)
\* formats.sort(key=height, reverse=True): stable, descending
SortByHeightDesc(fs) ==
    IF fs = <<>> THEN <<>>
    ELSE InsertDesc(SortByHeightDesc(SubSeq(fs, 1, Len(fs) - 1)), fs[Len(fs)])

FormatLimit == 10

\* formats[:10]
Truncate(fs) == SubSeq(fs, 1, IF Len(fs) < FormatLimit THEN Len(fs) ELSE FormatLimit)

(***************************************************************************)
(* The adapters' parsers.  A URL is a sequence of pieces, <<>> when the    *)
(* key is missing or empty; a relative URL starts with the piece "/".      *)
(* A height of 0 stands for a missing, null or zero height, an itag of 0   *)
(* for a missing one.                                                      *)
(***************************************************************************)
INVIDIOUS_URL == "http://localhost:3000"

\* f"{height}p"
HeightLabel(h) == Append(IntChars(h), "p")

\* server.py:200-206: the height of a Piped stream, 0 when unknown
PipedHeight(fmt) ==
    IF fmt.height = 0 /\ fmt.quality # <<>>
    THEN MatchHeightLabel(fmt.quality)
    ELSE fmt.height

PipedEntry(fmt) ==
    [quality |-> IF fmt.quality # <<>> THEN fmt.quality ELSE HeightLabel(PipedHeight(fmt)),
     url     |-> fmt.url,
     itag    |-> IF fmt.itag = 0 THEN <<>> ELSE IntChars(fmt.itag),
     ext     |-> "mp4",
     height  |-> PipedHeight(fmt)]

PipedKept(fmt) == fmt.url # <<>> /\ PipedHeight(fmt) > 0

\* fmt.get("videoOnly", True) is falsy
IsCombined(fmt) == fmt.videoOnly = "false"

RECURSIVE MapPipedEntries(_)
MapPipedEntries(fs) ==
    IF fs = <<>> THEN <<>> ELSE <<PipedEntry(fs[1])>> \o MapPipedEntries(Tail(fs))

\* the streams taken in the order of the response, combined or not
_parse_piped_streams_in_order(videoStreams) ==
    LET kept == SelectSeq(videoStreams, PipedKept)
    IN  SortByHeightDesc(DedupByHeight(MapPipedEntries(kept), {}))

_parse_piped_streams(videoStreams) ==
    LET kept == SelectSeq(videoStreams, PipedKept)
        combined == MapPipedEntries(SelectSeq(kept, IsCombined))
        video_only == MapPipedEntries(SelectSeq(kept, LAMBDA f : ~IsCombined(f)))
        combined_heights == {f.height : f \in Range(combined)}
        formats == combined \o SelectSeq(video_only, LAMBDA f : f.height \notin combined_heights)
    IN  SortByHeightDesc(DedupByHeight(formats, {}))

\* server.py:144-148: the height of an Invidious format, 0 when unknown
InvidiousHeight(fmt) ==
    IF fmt.height = 0 /\ fmt.resolution # <<>>
    THEN MatchHeightLabel(fmt.resolution)
    ELSE fmt.height

InvidiousEntry(fmt) ==
    [quality |-> IF fmt.qualityLabel # <<>> THEN fmt.qualityLabel
                 ELSE HeightLabel(InvidiousHeight(fmt)),
     url     |-> IF fmt.url[1] = "/" THEN <<INVIDIOUS_URL>> \o fmt.url ELSE fmt.url,
     itag    |-> IF fmt.itag = 0 THEN <<>> ELSE IntChars(fmt.itag),
     ext     |-> "mp4",
     height  |-> InvidiousHeight(fmt)]

InvidiousKept(fmt) ==
    fmt.type = "video" /\ fmt.url # <<>> /\ InvidiousHeight(fmt) > 0

RECURSIVE MapInvidiousEntries(_)
MapInvidiousEntries(fs) ==
    IF fs = <<>> THEN <<>> ELSE <<InvidiousEntry(fs[1])>> \o MapInvidiousEntries(Tail(fs))

\* server.py:137-180: the formats of get_video_info_invidious
invidious_formats(adaptiveFormats) ==
    Truncate(SortByHeightDesc(DedupByHeight(
        MapInvidiousEntries(SelectSeq(adaptiveFormats, InvidiousKept)), {})))

YtdlpKept(fmt) == fmt.url # <<>> /\ fmt.vcodec # "none" /\ fmt.ext = "mp4"

YtdlpEntry(fmt) ==
    [quality |-> IF fmt.height # 0
                 THEN (IF fmt.width = 0 THEN <<>> ELSE IntChars(fmt.width))
                      \o <<"x">> \o IntChars(fmt.height)
                 ELSE IF fmt.resolution # <<>> THEN fmt.resolution
                 ELSE <<"U", "n", "k", "n", "o", "w", "n">>,
     url     |-> fmt.url,
     itag    |-> fmt.format_id,
     ext     |-> fmt.ext]

RECURSIVE MapYtdlpEntries(_)
MapYtdlpEntries(fs) ==
    IF fs = <<>> THEN <<>> ELSE <<YtdlpEntry(fs[1])>> \o MapYtdlpEntries(Tail(fs))

BestEntry(u) ==
    [quality |-> <<"b", "e", "s", "t">>, url |-> u, itag |-> <<"b", "e", "s", "t">>,
     ext |-> "mp4"]

\* server.py:402-437: the formats of get_video's yt-dlp path; ydl is the
\* dictionary extract_info returned
ytdlp_formats(ydl) ==
    LET formats == MapYtdlpEntries(SelectSeq(ydl.formats, YtdlpKept))
    IN  Truncate(IF formats = <<>> /\ ydl.url # <<>> THEN <<BestEntry(ydl.url)>> ELSE formats)

(***************************************************************************)
(* Piped: one attempt (_try_piped_instance) and the pool loop.             *)
(***************************************************************************)
\* The first entries of PIPED_INSTANCES (server.py:47-98).
InstancePool ==
    <<"https://pipedapi.kavin.rocks", "https://pipedapi-libre.kavin.rocks",
      "https://pipedapi.leptons.xyz", "https://pipedapi.r4fo.com",
      "https://api-piped.mha.fi", "https://piped-api.garudalinux.org">>

SelfHostedUrl == "http://piped-backend:8080"

VideoId == <<"d", "Q", "w", "4", "w", "9", "W", "g", "X", "c", "Q">>

Stream(u, h, q, i, vo) ==
    [url |-> u, height |-> h, quality |-> q, itag |-> i, videoOnly |-> vo]

CdnUrl == <<"https://cdn.example", "/", "videoplayback">>

\* videoStreams of the responses the resolution is run with
SampleStreams ==
    { <<>>,
      <<Stream(CdnUrl, 1080, <<"1", "0", "8", "0", "p">>, 137, "true"),
        Stream(CdnUrl, 720, <<"7", "2", "0", "p">>, 136, "absent"),
        Stream(CdnUrl, 480, <<"4", "8", "0", "p">>, 135, "true")>>,
      <<Stream(CdnUrl, 0, <<"3", "6", "0", "p">>, 18, "false"),
        Stream(CdnUrl, 720, <<"7", "2", "0", "p">>, 136, "true"),
        Stream(CdnUrl, 720, <<"7", "2", "0", "p">>, 22, "false")>>,
      <<Stream(<<>>, 720, <<"7", "2", "0", "p">>, 22, "false"),
        Stream(CdnUrl, 0, <<"h", "d">>, 0, "false")>> }

Statuses == {200, 301, 302, 303, 307, 308, 404}

Response(n, s, l, j, e, t, v) ==
    [net |-> n, status |-> s, location |-> l, json |-> j, error |-> e,
     title |-> t, videoStreams |-> v]

\* A field of the JSON object as data.get reads it: <<>> when the object has
\* no such field, else the one value of the field.
ErrorFields == {<<>>, <<"">>, <<"Video unavailable">>}

TitleFields == {<<>>, <<"">>, <<"Some Title">>}

\* Python's truth of data.get(field): a field that is there and not empty
Truthy(field) == field # <<>> /\ field[1] # ""

\* What requests.get can produce: a RequestException (net = FALSE), or a
\* response with a status, a Location header or none, and a body that is not
\* JSON ("none"), JSON that is no object ("array"), or a JSON object with
\* its "error", "title" and "videoStreams".
PipedResponses ==
    {Response(FALSE, 0, FALSE, "none", <<>>, <<>>, <<>>)}
    \cup {Response(TRUE, s, l, j, <<>>, <<>>, <<>>) :
            s \in Statuses, l \in BOOLEAN, j \in {"none", "array"}}
    \cup {Response(TRUE, s, l, "object", e, t, <<>>) :
            s \in Statuses, l \in BOOLEAN, e \in ErrorFields, t \in TitleFields}
    \cup {Response(TRUE, s, l, "object", <<>>, <<"Some Title">>, v) :
            s \in Statuses, l \in BOOLEAN, v \in SampleStreams}

\* requests' Response.is_redirect
is_redirect(response) ==
    response.location /\ response.status \in {301, 302, 303, 307, 308}

Raise(e, isRequestException) ==
    [ok |-> FALSE, exc |-> e, request_exception |-> isRequestException]

Return(v) == [ok |-> TRUE, value |-> v]

\* an attempt that accepts whatever a redirect response carries
_try_piped_instance_redirect_ok(instance_url, vid, response) ==
    IF ~response.net
    THEN Raise([text |-> "ConnectionError", code |-> 0], TRUE)
    ELSE IF response.json = "none"
    THEN (IF response.status >= 400
          THEN Raise([text |-> "HTTPError", code |-> response.status], TRUE)
          ELSE Raise([text |-> "Non-JSON response (HTTP)", code |-> response.status], FALSE))
    ELSE IF response.json = "array"
    THEN Raise([text |-> "AttributeError", code |-> 0], FALSE)
    ELSE IF Truthy(response.error)
    THEN Raise([text |-> "API error", code |-> 0], FALSE)
    ELSE IF response.status >= 400
    THEN Raise([text |-> "HTTP", code |-> response.status], FALSE)
    ELSE IF ~Truthy(response.title)
    THEN Raise([text |-> "Empty response (no title)", code |-> 0], FALSE)
    ELSE Return([title |-> response.title[1],
                 formats |-> Truncate(_parse_piped_streams(response.videoStreams)),
                 videoId |-> vid,
                 piped_instance |-> instance_url])

\* server.py:241-283, given what requests.get produced
_try_piped_instance(instance_url, vid, response) ==
    IF ~response.net
    THEN Raise([text |-> "ConnectionError", code |-> 0], TRUE)
    ELSE IF is_redirect(response) \/ response.status \in {301, 302, 307, 308}
    THEN Raise([text |-> "Redirected (HTTP)", code |-> response.status], FALSE)
    ELSE IF response.json = "none"
    THEN (IF response.status >= 400
          THEN Raise([text |-> "HTTPError", code |-> response.status], TRUE)
          ELSE Raise([text |-> "Non-JSON response (HTTP)", code |-> response.status], FALSE))
    ELSE IF response.json = "array"
    THEN Raise([text |-> "AttributeError", code |-> 0], FALSE)
    ELSE IF Truthy(response.error)
    THEN Raise([text |-> "API error", code |-> 0], FALSE)
    ELSE IF response.status >= 400
    THEN Raise([text |-> "HTTP", code |-> response.status], FALSE)
    ELSE IF ~Truthy(response.title)
    THEN Raise([text |-> "Empty response (no title)", code |-> 0], FALSE)
    ELSE Return([title |-> response.title[1],
                 formats |-> Truncate(_parse_piped_streams(response.videoStreams)),
                 videoId |-> vid,
                 piped_instance |-> instance_url])

None == [text |-> "None"]

\* server.py:323-325
AllFailed(n, last) == [text |-> "All Piped instances failed", tried |-> n, last |-> last]

\* A request sent to an endpoint: "pending" until the endpoint has answered.
Attempt(instance_url) ==
    [instance |-> instance_url, status |-> "pending", error |-> None, redirect |-> FALSE]

\* The last attempt of the log, finished by _try_piped_instance's result r
\* on the response; redirect tells that the answer had one of the redirect
\* statuses of server.py:249.
Finish(log, r, response) ==
    [log EXCEPT ![Len(log)] =
        [instance |-> log[Len(log)].instance,
         status   |-> IF r.ok THEN "ok" ELSE "failed",
         error    |-> IF r.ok THEN None ELSE r.exc,
         redirect |-> response.net /\ response.status \in {301, 302, 307, 308}]]

\* the pool used although a self-hosted endpoint is configured
UseSelfHostedNever == FALSE

\* server.py:295
UseSelfHosted == PIPED_SELF_HOSTED_URL # ""

\* the loop going on after a successful attempt
ReturnsNever(r) == FALSE

\* server.py:313: the loop ends with the attempt's result
Returns(r) == r.ok

\* the loop's test off by one
MaxReachedLate(n) == n > PIPED_MAX_ATTEMPTS

\* server.py:304: the loop gives up
MaxReached(n) == n >= PIPED_MAX_ATTEMPTS

\* server.py:292-301: the self-hosted endpoint alone, or the shuffled pool
piped_enter ==
    /\ pc = "piped_call"
    /\ last_error' = None
    /\ IF UseSelfHosted
       THEN /\ attempts' = Append(attempts, Attempt(PIPED_SELF_HOSTED_URL))
            /\ pc' = "piped_self_wait"
            /\ UNCHANGED <<instances, idx, tried>>
       ELSE /\ instances' \in Shuffles(PIPED_INSTANCES)
            /\ tried' = 0
            /\ idx' = 1
            /\ pc' = "piped_loop"
            /\ UNCHANGED attempts
    /\ UNCHANGED <<config, request, info, sink, invoked, http_response, outcome, raw>>

\* server.py:296: the self-hosted endpoint's answer is the resolution's
piped_self_response ==
    /\ pc = "piped_self_wait"
    /\ \E response \in PipedResponses :
         LET r == _try_piped_instance(PIPED_SELF_HOSTED_URL, video_id, response)
         IN  /\ outcome' = r
             /\ attempts' = Finish(attempts, r, response)
    /\ pc' = "adapter_done"
    /\ UNCHANGED <<config, request, info, sink, invoked, http_response, pipedFrame, raw>>

\* server.py:303-313 and 323-325: the head of the for loop
piped_next ==
    /\ pc = "piped_loop"
    /\ IF idx > Len(instances) \/ MaxReached(tried)
       THEN /\ outcome' = Raise(AllFailed(tried, last_error), FALSE)
            /\ pc' = "adapter_done"
            /\ UNCHANGED <<tried, attempts>>
       ELSE /\ tried' = tried + 1
            /\ attempts' = Append(attempts, Attempt(instances[idx]))
            /\ pc' = "piped_wait"
            /\ UNCHANGED outcome
    /\ UNCHANGED <<config, request, info, sink, invoked, http_response,
                   instances, idx, last_error, raw>>

\* the first error kept instead of the last
RememberFirst(previous, e) == IF previous = None THEN e ELSE previous

\* server.py:316 and 320: what the loop remembers of a failed attempt
Remember(previous, e) == e

\* the loop without its second except clause: only a RequestException is
\* caught, any other failure leaves the call
piped_try_request_errors_only(response) ==
    LET r == _try_piped_instance(instances[idx], video_id, response)
    IN  /\ attempts' = Finish(attempts, r, response)
        /\ IF Returns(r) \/ ~r.request_exception
           THEN /\ outcome' = r
                /\ pc' = "adapter_done"
                /\ UNCHANGED <<idx, last_error>>
           ELSE /\ last_error' = Remember(last_error, r.exc)
                /\ idx' = idx + 1
                /\ pc' = "piped_loop"
                /\ UNCHANGED outcome
        /\ UNCHANGED <<config, request, info, sink, invoked, http_response,
                       instances, tried>>

\* server.py:312-321 on one response: the attempt returns, or fails and the
\* loop goes on
piped_try(response) ==
    LET r == _try_piped_instance(instances[idx], video_id, response)
    IN  /\ attempts' = Finish(attempts, r, response)
        /\ IF Returns(r)
           THEN /\ outcome' = r
                /\ pc' = "adapter_done"
                /\ UNCHANGED <<idx, last_error>>
           ELSE /\ last_error' = IF r.ok THEN last_error
                                 ELSE Remember(last_error, r.exc)
                /\ idx' = idx + 1
                /\ pc' = "piped_loop"
                /\ UNCHANGED outcome
        /\ UNCHANGED <<config, request, info, sink, invoked, http_response,
                       instances, tried>>

\* server.py:312-321, whatever the endpoint answers
piped_response ==
    /\ pc = "piped_wait"
    /\ \E response \in PipedResponses : piped_try(response)
    /\ UNCHANGED raw

\* the same step, with the endpoint's answer kept in raw
piped_response_kept ==
    /\ pc = "piped_wait"
    /\ \E response \in PipedResponses : piped_try(response) /\ raw' = response

get_video_info_piped == piped_enter \/ piped_self_response \/ piped_next \/ piped_response

NoOutcome == [ok |-> FALSE, exc |-> None, request_exception |-> FALSE]

NoFormat == [quality |-> <<>>, url |-> <<>>, itag |-> <<>>, ext |-> "", height |-> 0]

NoInfo == [title |-> "", formats |-> <<>>]

NoResponse == [status |-> 0]

\* everything but the configuration, pc and the video ID, before a request
Quiet ==
    /\ handler = "none"
    /\ url = <<>>
    /\ backend = ""
    /\ quality = <<>>
    /\ info = NoInfo
    /\ selected_format = NoFormat
    /\ tmpfile = FALSE
    /\ invoked = {}
    /\ fetched = FALSE
    /\ s3_objects = 0
    /\ http_response = NoResponse
    /\ instances = <<>>
    /\ idx = 0
    /\ tried = 0
    /\ last_error = None
    /\ attempts = <<>>
    /\ outcome = NoOutcome
    /\ raw = <<>>

\* One call get_video_info_piped(video_id), for every configuration of the
\* pool up to the bounds, with and without a self-hosted endpoint.
InitPiped ==
    /\ Quiet
    /\ pc = "piped_call"
    /\ video_id = VideoId
    /\ PIPED_SELF_HOSTED_URL \in {"", SelfHostedUrl}
    /\ \E n \in 1..MaxInstances : PIPED_INSTANCES = SubSeq(InstancePool, 1, n)
    /\ PIPED_MAX_ATTEMPTS \in 0..MaxAttempts
    /\ DEFAULT_BACKEND = IF PIPED_SELF_HOSTED_URL # "" THEN "piped" ELSE "yt-dlp"

NextPiped == get_video_info_piped

SpecPiped == InitPiped /\ [][NextPiped]_vars

(***************************************************************************)
(* Invidious: get_video_info_invidious, given what requests.get produced.  *)
(***************************************************************************)
InvidiousFormat(ty, u, h, res, ql, i) ==
    [type |-> ty, url |-> u, height |-> h, resolution |-> res, qualityLabel |-> ql,
     itag |-> i]

RelativeUrl == <<"/", "videoplayback">>

SampleAdaptiveFormats ==
    { <<>>,
      <<InvidiousFormat("audio", RelativeUrl, 0, <<>>, <<>>, 140),
        InvidiousFormat("video", RelativeUrl, 720, <<"7", "2", "0", "p">>, <<>>, 136),
        InvidiousFormat("video", RelativeUrl, 0, <<"1", "0", "8", "0", "p">>, <<>>, 137),
        InvidiousFormat("video", CdnUrl, 480, <<>>, <<"4", "8", "0", "p">>, 135)>>,
      <<InvidiousFormat("video", <<>>, 720, <<>>, <<>>, 136),
        InvidiousFormat("audio", CdnUrl, 0, <<>>, <<>>, 140)>> }

InvidiousResponses ==
    {Response(FALSE, 0, FALSE, "none", FALSE, "", <<>>)}
    \cup {Response(TRUE, s, FALSE, j, FALSE, "", <<>>) :
            s \in {200, 404}, j \in {"none", "array"}}
    \cup {Response(TRUE, 404, FALSE, "object", TRUE, "", <<>>)}
    \cup {Response(TRUE, 200, FALSE, "object", FALSE, t, v) :
            t \in {"", "Some Title"}, v \in SampleAdaptiveFormats}

\* server.py:183-185
InvidiousError(e) == [text |-> "Invidious error", cause |-> e]

\* server.py:125-185; videoStreams of the response stands for adaptiveFormats
get_video_info_invidious(vid, response) ==
    IF ~response.net
    THEN Raise(InvidiousError([text |-> "ConnectionError", code |-> 0]), FALSE)
    ELSE IF response.status >= 400
    THEN Raise(InvidiousError([text |-> "HTTPError", code |-> response.status]), FALSE)
    ELSE IF response.json = "none"
    THEN Raise(InvidiousError([text |-> "JSONDecodeError", code |-> 0]), FALSE)
    ELSE IF response.json = "array"
    THEN Raise(InvidiousError([text |-> "AttributeError", code |-> 0]), FALSE)
    ELSE Return([title |-> IF response.title = "" THEN "YouTube Video" ELSE response.title,
                 formats |-> invidious_formats(response.videoStreams),
                 videoId |-> vid])

(***************************************************************************)
(* The stream selector of upload_to_s3.                                    *)
(***************************************************************************)
Best == <<"b", "e", "s", "t">>

\* server.py:491-494
TargetHeight(q) ==
    IF SearchTrailingHeight(q) >= 0 THEN SearchTrailingHeight(q) ELSE 0

\* a candidate of exactly the target height passed over
FitsBelow(fmt_height, target_height) == fmt_height # 0 /\ fmt_height < target_height

\* server.py:497: the candidate is taken for the target height
Fits(fmt_height, target_height) == fmt_height # 0 /\ fmt_height <= target_height

\* server.py:488-501: the selected format, NoFormat for None
select_format(q, formats) ==
    LET fitting == {i \in 1..Len(formats) : Fits(formats[i].height, TargetHeight(q))}
    IN  IF q # <<>> /\ q # Best /\ fitting # {}
        THEN formats[CHOOSE i \in fitting : \A j \in fitting : i <= j]
        ELSE IF formats # <<>> THEN formats[1]
        ELSE NoFormat

\* the selection's result used unchecked
UnsuitableNever(sel) == FALSE

\* server.py:503
Unsuitable(sel) == sel = NoFormat

(***************************************************************************)
(* The request handlers.                                                   *)
(***************************************************************************)
SampleUrls ==
    { <<"h", "t", "t", "p", "s", ":", "/", "/", "y", "o", "u", "t", "u", ".", "b",
        "e", "/", "d", "Q", "w", "4", "w", "9", "W", "g", "X", "c", "Q">>,
      <<"h", "t", "t", "p", "s", ":", "/", "/", "v", "i", "m", "e", "o", ".", "c",
        "o", "m", "/", "7", "6", "9", "7", "9", "8", "7", "1">>,
      <<>> }

\* the backend parameter of a request; "absent" when it is not given
BackendParams == {"absent", "invidious", "piped", "yt-dlp"}

SampleHints ==
    { Best, <<>>, <<"h", "d">>, <<"7", "2", "0", "p">>,
      <<"1", "2", "8", "0", "x", "7", "2", "0">> }

\* server.py:360 and 457
Effective(b) == IF b = "absent" THEN DEFAULT_BACKEND ELSE b

Resp(st, e, be, fs) == [status |-> st, error |-> e, backend |-> be, formats |-> fs]

\* the frame of get_video_info_piped is gone once it has returned
PipedFrameGone ==
    /\ instances' = <<>>
    /\ idx' = 0
    /\ tried' = 0
    /\ last_error' = None
    /\ attempts' = <<>>

\* server.py:374 and 382: the adapter of get_video's backend is called
UsesAdapter(b, vid) == b \in {"invidious", "piped"} /\ vid # <<>>

\* server.py:359-400: GET /api/video up to the call of its backend
get_video_begin ==
    /\ pc = "idle"
    /\ \E u \in SampleUrls, b \in BackendParams :
         /\ handler' = "get_video"
         /\ url' = u
         /\ backend' = Effective(b)
         /\ video_id' = IF u = <<>> THEN <<>> ELSE extract_video_id(u)
         /\ IF u = <<>>
            THEN /\ http_response' = Resp(400, [text |-> "No URL provided"], "", <<>>)
                 /\ pc' = "responded"
                 /\ UNCHANGED invoked
            ELSE IF UsesAdapter(Effective(b), extract_video_id(u))
            THEN /\ invoked' = invoked \cup {Effective(b)}
                 /\ pc' = IF Effective(b) = "piped" THEN "piped_call" ELSE "invidious_wait"
                 /\ UNCHANGED http_response
            ELSE /\ invoked' = invoked \cup {"yt-dlp"}
                 /\ pc' = "ytdlp_info_wait"
                 /\ UNCHANGED http_response
    /\ UNCHANGED <<config, quality, info, sink, pipedFrame, attempts, outcome, raw>>

\* server.py:133-185: the Invidious endpoint answers
invidious_response ==
    /\ pc = "invidious_wait"
    /\ \E response \in InvidiousResponses :
         outcome' = get_video_info_invidious(video_id, response)
    /\ pc' = "adapter_done"
    /\ UNCHANGED <<config, request, info, sink, invoked, http_response, pipedFrame,
                   attempts, raw>>

\* server.py:376-380 and 384-388: the adapter's result becomes the response
get_video_return ==
    /\ pc = "adapter_done"
    /\ handler = "get_video"
    /\ IF outcome.ok
       THEN /\ info' = outcome.value
            /\ http_response' = Resp(200, None, backend, outcome.value.formats)
       ELSE /\ http_response' = Resp(500, outcome.exc, backend, <<>>)
            /\ UNCHANGED info
    /\ pc' = "responded"
    /\ PipedFrameGone
    /\ UNCHANGED <<config, request, sink, invoked, outcome, raw>>

YtdlpFormat(u, vc, e, w, h, res, fid) ==
    [url |-> u, vcodec |-> vc, ext |-> e, width |-> w, height |-> h,
     resolution |-> res, format_id |-> fid]

\* what extract_info returns: the library's formats, worst first
SampleYtdlpInfos ==
    { [formats |-> <<>>, url |-> <<>>],
      [formats |-> <<>>, url |-> CdnUrl],
      [formats |-> <<YtdlpFormat(CdnUrl, "none", "m4a", 0, 0,
                                 <<"a", "u", "d", "i", "o">>, <<"1", "4", "0">>),
                     YtdlpFormat(CdnUrl, "avc1", "mp4", 640, 360, <<>>, <<"1", "8">>),
                     YtdlpFormat(CdnUrl, "vp9", "webm", 1280, 720, <<>>, <<"2", "4", "7">>),
                     YtdlpFormat(CdnUrl, "avc1", "mp4", 1280, 720, <<>>, <<"2", "2">>)>>,
       url |-> CdnUrl] }

\* server.py:398-447: yt-dlp's extract_info returns or raises
ytdlp_info_response ==
    /\ pc = "ytdlp_info_wait"
    /\ \/ \E ydl \in SampleYtdlpInfos :
            /\ raw' = ydl.formats
            /\ info' = [title |-> "Some Title", formats |-> ytdlp_formats(ydl)]
            /\ http_response' = Resp(200, None, "yt-dlp", ytdlp_formats(ydl))
       \/ /\ http_response' = Resp(500, [text |-> "DownloadError"], "", <<>>)
          /\ UNCHANGED <<info, raw>>
    /\ pc' = "responded"
    /\ UNCHANGED <<config, request, sink, invoked, pipedFrame, attempts, outcome>>

\* server.py:453-485 and 523-556: POST /api/upload-s3 up to the call of its
\* backend; the temporary file's name is fixed, the file is not yet made
upload_begin ==
    /\ pc = "idle"
    /\ \E u \in SampleUrls, b \in BackendParams, q \in SampleHints :
         /\ handler' = "upload_to_s3"
         /\ url' = u
         /\ backend' = Effective(b)
         /\ quality' = q
         /\ IF u = <<>>
            THEN /\ http_response' = Resp(400, [text |-> "No URL provided"], "", <<>>)
                 /\ pc' = "responded"
                 /\ UNCHANGED <<invoked, video_id>>
            ELSE IF Effective(b) \in {"invidious", "piped"}
            THEN /\ video_id' = extract_video_id(u)
                 /\ IF extract_video_id(u) = <<>>
                    THEN /\ http_response' =
                               Resp(500, [text |-> "Could not extract video ID from URL"],
                                    "", <<>>)
                         /\ pc' = "responded"
                         /\ UNCHANGED invoked
                    ELSE /\ invoked' = invoked \cup {Effective(b)}
                         /\ pc' = IF Effective(b) = "piped" THEN "piped_call"
                                  ELSE "invidious_wait"
                         /\ UNCHANGED http_response
            ELSE /\ invoked' = invoked \cup {"yt-dlp"}
                 /\ pc' = "ytdlp_download_wait"
                 /\ UNCHANGED <<http_response, video_id>>
    /\ UNCHANGED <<config, info, sink, pipedFrame, attempts, outcome, raw>>

\* server.py:483-515 and 591-593: the adapter's result, the selection, and
\* the temporary file opened for the stream that urlopen is asked for
upload_select ==
    /\ pc = "adapter_done"
    /\ handler = "upload_to_s3"
    /\ IF ~outcome.ok
       THEN /\ http_response' = Resp(500, outcome.exc, "", <<>>)
            /\ pc' = "responded"
            /\ UNCHANGED <<info, sink>>
       ELSE /\ info' = outcome.value
            /\ IF Unsuitable(select_format(quality, outcome.value.formats))
               THEN /\ http_response' =
                          Resp(500, [text |-> "No suitable format found"], "", <<>>)
                    /\ pc' = "responded"
                    /\ UNCHANGED sink
               ELSE /\ selected_format' = select_format(quality, outcome.value.formats)
                    /\ tmpfile' = TRUE
                    /\ fetched' = TRUE
                    /\ pc' = "fetch_wait"
                    /\ UNCHANGED <<http_response, s3_objects>>
    /\ PipedFrameGone
    /\ UNCHANGED <<config, request, invoked, outcome, raw>>

\* server.py:515-521 and 591-593: the stream is read into the file, or
\* urlopen or a read raises and the handler answers with the error
fetch_response ==
    /\ pc = "fetch_wait"
    /\ \/ /\ pc' = "s3_wait"
          /\ UNCHANGED http_response
       \/ /\ http_response' = Resp(500, [text |-> "URLError"], "", <<>>)
          /\ pc' = "responded"
    /\ UNCHANGED <<config, request, info, sink, invoked, pipedFrame, attempts,
                   outcome, raw>>

\* server.py:555-556 and 591-593: yt-dlp writes the file named by outtmpl,
\* or raises before the file exists under that name
ytdlp_download_response ==
    /\ pc = "ytdlp_download_wait"
    /\ \/ /\ tmpfile' = TRUE
          /\ pc' = "s3_wait"
          /\ UNCHANGED http_response
       \/ /\ http_response' = Resp(500, [text |-> "DownloadError"], "", <<>>)
          /\ pc' = "responded"
          /\ UNCHANGED tmpfile
    /\ UNCHANGED <<config, request, info, selected_format, fetched, s3_objects,
                   invoked, pipedFrame, attempts, outcome, raw>>

\* server.py:561-593: put_object stores the file, or raises; the file is
\* removed either way
s3_response ==
    /\ pc = "s3_wait"
    /\ \/ /\ s3_objects' = s3_objects + 1
          /\ http_response' = Resp(200, None, backend, <<>>)
       \/ /\ http_response' = Resp(500, [text |-> "Failed to upload to S3"], "", <<>>)
          /\ UNCHANGED s3_objects
    /\ tmpfile' = FALSE
    /\ pc' = "responded"
    /\ UNCHANGED <<config, request, info, selected_format, fetched, invoked,
                   pipedFrame, attempts, outcome, raw>>

\* The server with one request: every configuration of the default backend
\* and of the self-hosted endpoint, a pool of ServerInstances instances.
Init ==
    /\ Quiet
    /\ pc = "idle"
    /\ video_id = <<>>
    /\ PIPED_SELF_HOSTED_URL \in {"", SelfHostedUrl}
    /\ PIPED_INSTANCES = SubSeq(InstancePool, 1, ServerInstances)
    /\ PIPED_MAX_ATTEMPTS \in 1..ServerInstances
    /\ DEFAULT_BACKEND \in
          {"invidious", IF PIPED_SELF_HOSTED_URL # "" THEN "piped" ELSE "yt-dlp"}

Next ==
    \/ get_video_begin
    \/ upload_begin
    \/ get_video_info_piped
    \/ invidious_response
    \/ get_video_return
    \/ ytdlp_info_response
    \/ upload_select
    \/ fetch_response
    \/ ytdlp_download_response
    \/ s3_response

Spec == Init /\ [][Next]_vars

(***************************************************************************)
(* The Piped resolution: properties of SpecPiped.                          *)
(***************************************************************************)
PoolMode == PIPED_SELF_HOSTED_URL = ""

N == Len(PIPED_INSTANCES)

M == PIPED_MAX_ATTEMPTS

MinNM == IF N < M THEN N ELSE M

Resolved == pc = "adapter_done"

AggregateError ==
    Resolved /\ ~outcome.ok /\ outcome.exc.text = "All Piped instances failed"

Contacted == {attempts[i].instance : i \in 1..Len(attempts)}

\* C1: in pool mode with a maximum attempt count M below the number N of
\* configured instances, never more than M instances have been contacted,
\* and the resolution that fails with the aggregate error has tried at most M.
C1_AtMostMaxAttempts ==
    (PoolMode /\ M < N) =>
        /\ Len(attempts) <= M
        /\ Cardinality(Contacted) <= M
        /\ AggregateError => outcome.exc.tried <= M

\* C1 witness: a pool of more than M >= 2 instances gave up after M attempts
C1_Witness ==
    /\ PoolMode /\ M < N /\ M >= 2
    /\ AggregateError
    /\ Len(attempts) = M

\* C2: in pool mode every attempt but the last of the log has finished with a
\* failure (so an attempt starts only after the previous one failed, and at
\* most one is in flight), and a successful attempt is the last one: its
\* result is the resolution's result and nothing is contacted after it.
C2_SequentialStopAtFirstSuccess ==
    PoolMode =>
        /\ \A i \in 1..(Len(attempts) - 1) : attempts[i].status = "failed"
        /\ \A i \in 1..Len(attempts) :
             attempts[i].status = "ok" =>
                /\ i = Len(attempts)
                /\ Resolved /\ outcome.ok
                /\ outcome.value.piped_instance = attempts[i].instance
        /\ (Resolved /\ outcome.ok) =>
                Len(attempts) >= 1 /\ attempts[Len(attempts)].status = "ok"

\* C2 witness: the second attempt succeeded while a third instance was left
C2_Witness ==
    /\ PoolMode /\ N >= 3 /\ M >= 2
    /\ Resolved /\ outcome.ok
    /\ Len(attempts) = 2
    /\ attempts[1].status = "failed"

\* C6: an attempt answered with HTTP 301, 302, 307 or 308 has failed with the
\* redirect error, is not what a returned result was built from, and in pool
\* mode the loop has moved on to the next candidate or has ended in failure.
C6_RedirectNeverSuccess ==
    \A i \in 1..Len(attempts) :
        attempts[i].redirect =>
            /\ attempts[i].status = "failed"
            /\ attempts[i].error.text = "Redirected (HTTP)"
            /\ (Resolved /\ outcome.ok) => i < Len(attempts)
            /\ (PoolMode /\ i = Len(attempts)) =>
                  \/ pc = "piped_loop" /\ idx = i + 1
                  \/ Resolved /\ ~outcome.ok
            /\ (PoolMode /\ i < Len(attempts)) =>
                  attempts[i + 1].instance # attempts[i].instance

\* C6 witness: in pool mode a redirect was answered, and the next instance
\* then gave the result
C6_Witness ==
    /\ PoolMode
    /\ Len(attempts) = 2
    /\ attempts[1].redirect
    /\ Resolved /\ outcome.ok

\* C7: in pool mode the resolution fails only with the aggregate error, and
\* then exactly min(N, M) distinct instances were contacted once each and
\* all failed; the error's tried count is that number and its last error is
\* the error of the last attempt.
C7_AggregateError ==
    (PoolMode /\ Resolved /\ ~outcome.ok) =>
        /\ outcome.exc.text = "All Piped instances failed"
        /\ Len(attempts) = MinNM
        /\ Cardinality(Contacted) = MinNM
        /\ \A i \in 1..Len(attempts) : attempts[i].status = "failed"
        /\ outcome.exc.tried = MinNM
        /\ outcome.exc.last =
              IF attempts = <<>> THEN None ELSE attempts[Len(attempts)].error

\* C7 witness: the aggregate error after two attempts that failed differently
C7_Witness ==
    /\ PoolMode /\ AggregateError
    /\ Len(attempts) >= 2
    /\ attempts[1].error # attempts[Len(attempts)].error
    /\ N > M

\* C8: with a self-hosted endpoint configured, only that endpoint is ever
\* contacted, at most once, and the finished resolution has contacted it
\* exactly once and ends as that one attempt ended.
C8_SelfHostedOnly ==
    ~PoolMode =>
        /\ Len(attempts) <= 1
        /\ Contacted \subseteq {PIPED_SELF_HOSTED_URL}
        /\ Resolved =>
              /\ Len(attempts) = 1
              /\ outcome.ok <=> attempts[1].status = "ok"
              /\ outcome.ok => outcome.value.piped_instance = PIPED_SELF_HOSTED_URL
              /\ ~outcome.ok => outcome.exc = attempts[1].error

\* C8 witness: the self-hosted endpoint failed and the resolution ended there
C8_Witness ==
    /\ ~PoolMode
    /\ Resolved /\ ~outcome.ok
    /\ Len(attempts) = 1
    /\ attempts[1].status = "failed"

(***************************************************************************)
(* The request handlers: properties of Spec.                               *)
(***************************************************************************)
Responded == pc = "responded"

\* C3: once POST /api/upload-s3 has answered, the temporary file of the
\* request does not exist, whatever path the request took.
C3_TempFileRemoved ==
    (handler = "upload_to_s3" /\ Responded) => ~tmpfile

\* C5: a request whose backend is invidious or piped has called no other
\* backend, and when the video ID could not be extracted or the backend
\* failed its response carries an error.
C5_SelectedBackendOnly ==
    (handler # "none" /\ backend \in {"invidious", "piped"}) =>
        /\ invoked \subseteq {backend}
        /\ (Responded /\ (video_id = <<>> \/ (invoked # {} /\ ~outcome.ok))) =>
              http_response.status >= 400 /\ http_response.error # None

\* the adapter returned a result whose candidate list is empty
EmptyCandidates ==
    /\ handler = "upload_to_s3"
    /\ backend \in {"invidious", "piped"}
    /\ outcome.ok
    /\ outcome.value.formats = <<>>

\* C10: with an empty candidate list upload_to_s3 fetches no stream, makes
\* no temporary file, uploads nothing, and answers with the error
\* "No suitable format found", whatever the quality hint.
C10_NoSuitableFormat ==
    EmptyCandidates =>
        /\ ~fetched /\ ~tmpfile /\ s3_objects = 0
        /\ pc \in {"adapter_done", "responded"}
        /\ Responded =>
              /\ http_response.status = 500
              /\ http_response.error = [text |-> "No suitable format found"]

\* C10 witness: the error answered to a request with a numeric quality hint
C10_Witness ==
    /\ EmptyCandidates /\ Responded
    /\ quality = <<"7", "2", "0", "p">>
    /\ http_response.error = [text |-> "No suitable format found"]

(***************************************************************************)
(* The adapters' candidate lists, for every raw list up to MaxStreams.     *)
(***************************************************************************)
Heights == {0, 360, 720}

Labels == {<<>>, <<"3", "6", "0", "p">>}

PipedStreams ==
    {Stream(u, h, q, 18, vo) :
        u \in {<<>>, CdnUrl}, h \in Heights, q \in Labels, vo \in {"true", "false"}}

InvidiousFormats ==
    {InvidiousFormat(ty, u, h, res, <<>>, 18) :
        ty \in {"video", "audio"}, u \in {<<>>, RelativeUrl, CdnUrl}, h \in Heights,
        res \in Labels}

YtdlpFormats ==
    {YtdlpFormat(u, vc, e, IF h = 0 THEN 0 ELSE (h * 16) \div 9, h, <<>>, <<"1", "8">>) :
        u \in {<<>>, CdnUrl}, vc \in {"none", "avc1"}, e \in {"mp4", "webm"}, h \in Heights}

\* more streams than the adapters return, lowest first
LongPiped == [i \in 1..(FormatLimit + 2) |-> Stream(CdnUrl, 100 * i, <<>>, i, "true")]

LongInvidious ==
    [i \in 1..(FormatLimit + 2) |-> InvidiousFormat("video", CdnUrl, 100 * i, <<>>, <<>>, i)]

LongYtdlp ==
    [i \in 1..(FormatLimit + 2) |->
        YtdlpFormat(CdnUrl, "avc1", "mp4", 160 * i, 90 * i, <<>>, IntChars(i))]

\* the height a candidate is known by: its height, or for the yt-dlp path,
\* whose candidates carry none, the height of its "<width>x<height>" label
HeightOf(f) ==
    IF "height" \in DOMAIN f THEN f.height
    ELSE IF SearchTrailingHeight(f.quality) > 0 THEN SearchTrailingHeight(f.quality)
    ELSE 0

StrictlyDescending(fs) ==
    /\ \A i \in 1..Len(fs) : HeightOf(fs[i]) # 0
    /\ \A i \in 1..(Len(fs) - 1) : HeightOf(fs[i]) > HeightOf(fs[i + 1])

parse_piped ==
    /\ pc = "parse"
    /\ \E streams \in SeqsUpTo(PipedStreams, MaxStreams) \cup {LongPiped} :
         /\ raw' = streams
         /\ info' = [title |-> "Some Title",
                     formats |-> Truncate(_parse_piped_streams(streams))]
    /\ backend' = "piped"
    /\ pc' = "parsed"
    /\ UNCHANGED <<config, handler, url, quality, video_id, sink, invoked,
                   http_response, pipedFrame, attempts, outcome>>

parse_invidious ==
    /\ pc = "parse"
    /\ \E adaptiveFormats \in SeqsUpTo(InvidiousFormats, MaxStreams) \cup {LongInvidious} :
         /\ raw' = adaptiveFormats
         /\ info' = [title |-> "Some Title", formats |-> invidious_formats(adaptiveFormats)]
    /\ backend' = "invidious"
    /\ pc' = "parsed"
    /\ UNCHANGED <<config, handler, url, quality, video_id, sink, invoked,
                   http_response, pipedFrame, attempts, outcome>>

parse_ytdlp ==
    /\ pc = "parse"
    /\ \E fs \in SeqsUpTo(YtdlpFormats, MaxStreams) \cup {LongYtdlp}, u \in {<<>>, CdnUrl} :
         /\ raw' = fs
         /\ info' = [title |-> "Some Title",
                     formats |-> ytdlp_formats([formats |-> fs, url |-> u])]
    /\ backend' = "yt-dlp"
    /\ pc' = "parsed"
    /\ UNCHANGED <<config, handler, url, quality, video_id, sink, invoked,
                   http_response, pipedFrame, attempts, outcome>>

InitFormats ==
    /\ Quiet
    /\ pc = "parse"
    /\ video_id = <<>>
    /\ PIPED_SELF_HOSTED_URL = ""
    /\ PIPED_INSTANCES = SubSeq(InstancePool, 1, 1)
    /\ PIPED_MAX_ATTEMPTS = 1
    /\ DEFAULT_BACKEND = "yt-dlp"

NextFormats == parse_piped \/ parse_invidious \/ parse_ytdlp

SpecFormats == InitFormats /\ [][NextFormats]_vars

\* C4 as stated: the candidate list of every adapter, the yt-dlp path of
\* GET /api/video included, is strictly descending by height without a
\* height of 0.
C4_AllAdaptersSorted ==
    pc = "parsed" => StrictlyDescending(info.formats)

\* C4 amended: the candidate lists of the Invidious and Piped adapters are
\* strictly descending by height (so no height occurs twice), hold no entry
\* of height 0 and at most ten entries.
C4_ApiAdaptersSorted ==
    (pc = "parsed" /\ backend \in {"invidious", "piped"}) =>
        /\ StrictlyDescending(info.formats)
        /\ Len(info.formats) <= FormatLimit

\* C4 witness: two streams answered lowest first came back highest first
C4_Witness ==
    /\ pc = "parsed" /\ backend \in {"invidious", "piped"}
    /\ Len(raw) = 2 /\ Len(info.formats) = 2
    /\ raw[1].height = 360 /\ raw[2].height = 720
    /\ info.formats[1].height = 720

(***************************************************************************)
(* The selector on every candidate list an API adapter can return and      *)
(* every quality hint up to MaxHintLen.                                    *)
(***************************************************************************)
CandidateHeights == {144, 360, 480, 720, 1080}

HintChars == {"2", "7", "0", "p", "x"}

Hints == SeqsUpTo(HintChars, MaxHintLen) \cup SampleHints \cup {<<"7", "2", "0", "p", "6", "0">>}

Candidate(h) ==
    [quality |-> HeightLabel(h), url |-> CdnUrl, itag |-> IntChars(h), ext |-> "mp4",
     height |-> h]

\* the lists of up to MaxCandidates candidates, strictly descending by height
CandidateLists ==
    {fs \in SeqsUpTo({Candidate(h) : h \in CandidateHeights}, MaxCandidates) :
        \A i \in 1..(Len(fs) - 1) : fs[i].height > fs[i + 1].height}

select_step ==
    /\ pc = "select"
    /\ \E q \in Hints :
         /\ quality' = q
         /\ selected_format' = select_format(q, info.formats)
    /\ pc' = "selected"
    /\ UNCHANGED <<config, handler, url, backend, video_id, info, tmpfile, fetched,
                   s3_objects, invoked, http_response, pipedFrame, attempts, outcome, raw>>

InitSelect ==
    /\ pc = "select"
    /\ handler = "none" /\ url = <<>> /\ backend = "piped" /\ quality = <<>>
    /\ video_id = <<>>
    /\ \E fs \in CandidateLists : info = [title |-> "Some Title", formats |-> fs]
    /\ selected_format = NoFormat
    /\ tmpfile = FALSE /\ invoked = {} /\ fetched = FALSE /\ s3_objects = 0
    /\ http_response = NoResponse
    /\ instances = <<>> /\ idx = 0 /\ tried = 0 /\ last_error = None
    /\ attempts = <<>> /\ outcome = NoOutcome /\ raw = <<>>
    /\ PIPED_SELF_HOSTED_URL = ""
    /\ PIPED_INSTANCES = SubSeq(InstancePool, 1, 1)
    /\ PIPED_MAX_ATTEMPTS = 1
    /\ DEFAULT_BACKEND = "yt-dlp"

NextSelect == select_step

SpecSelect == InitSelect /\ [][NextSelect]_vars

\* the hint is digits, or digits and "p", behind anything that ends in a
\* character that is no digit: its target height is the number the digits spell
NumericTail(q) ==
    \E k \in 1..Len(q) :
        LET tail == SubSeq(q, k, Len(q))
            ds == IF tail[Len(tail)] = "p" THEN SubSeq(tail, 1, Len(tail) - 1) ELSE tail
        IN  /\ ds # <<>>
            /\ \A i \in 1..Len(ds) : IsDigit(ds[i])
            /\ k > 1 => ~IsDigit(q[k - 1])

\* the candidates of a height that is not 0 and at most H
AtMost(fs, H) == {i \in 1..Len(fs) : fs[i].height # 0 /\ fs[i].height <= H}

\* C9: on a non-empty candidate list in descending order, a hint with a
\* target height H selects the candidate of the greatest height that is not
\* 0 and at most H when there is one; the hint "best", an absent or empty
\* hint, a hint without a number at its end, or no candidate of a height of
\* at most H, selects the first candidate.  The hint "1280x720" on the heights
\* 1080, 720, 480 selects 720.
C9_SelectorPicksHighestFitting ==
    (pc = "selected" /\ info.formats # <<>>) =>
        LET fs == info.formats
            H == TargetHeight(quality)
            numeric == quality # Best /\ quality # <<>> /\ NumericTail(quality)
        IN  /\ (numeric /\ AtMost(fs, H) # {}) =>
                  /\ selected_format \in Range(fs)
                  /\ selected_format.height # 0 /\ selected_format.height <= H
                  /\ \A i \in AtMost(fs, H) : fs[i].height <= selected_format.height
            /\ (~numeric \/ AtMost(fs, H) = {}) => selected_format = fs[1]
            /\ (quality = <<"1", "2", "8", "0", "x", "7", "2", "0">>
                  /\ [i \in 1..Len(fs) |-> fs[i].height] = <<1080, 720, 480>>) =>
                  selected_format.height = 720
            /\ (quality = <<"7", "2", "0", "p">>) => H = 720
            /\ (quality = <<"1", "2", "8", "0", "x", "7", "2", "0">>) => H = 720

\* C9 witness: the scenario of the hint "1280x720" on the heights 1080, 720, 480
C9_Witness ==
    /\ pc = "selected"
    /\ quality = <<"1", "2", "8", "0", "x", "7", "2", "0">>
    /\ [i \in 1..Len(info.formats) |-> info.formats[i].height] = <<1080, 720, 480>>
    /\ selected_format.height = 720

(***************************************************************************)
(* SpecVideoId: extract_video_id applied to URL strings.  A URL of a video *)
(* is a scheme and host part, one of the three path prefixes or nothing,   *)
(* the ID, and a suffix; the other inputs are strings that the patterns do *)
(* not match.                                                              *)
(***************************************************************************)
MaxIdHead == 2

IdAlphabet == {"a", "-", "_"}

\* IDs: a varying head of up to MaxIdHead characters, completed to 11
\* characters by the tail of the sample ID
Ids ==
    {h \o SubSeq(VideoId, Len(h) + 1, IdLen) : h \in SeqsUpTo(IdAlphabet, MaxIdHead)}

Schemes ==
    {<<>>, <<"h", "t", "t", "p", "s", ":", "/", "/">>,
     <<"h", "t", "t", "p", "s", ":", "/", "/", "w", "w", "w", ".">>,
     <<"h", "t", "t", "p", ":", "/", "/">>, <<"h", "t", "t", "p", "s", ":", "/", "/", "m", ".">>}

Suffixes == {<<>>, <<"&", "t", "=", "1", "0", "s">>, <<"?", "s", "i", "=", "a", "b", "c">>}

\* the URL of a video in one of the four shapes
WatchUrl(scheme, id, suffix) == scheme \o UrlPrefixes[1] \o id \o suffix
ShortUrl(scheme, id, suffix) == scheme \o UrlPrefixes[2] \o id \o suffix
EmbedUrl(scheme, id, suffix) == scheme \o UrlPrefixes[3] \o id \o suffix
BareId(id) == id

ShapesOf(id) ==
    {WatchUrl(s, id, x) : s \in Schemes, x \in Suffixes}
        \cup {ShortUrl(s, id, x) : s \in Schemes, x \in Suffixes}
        \cup {EmbedUrl(s, id, x) : s \in Schemes, x \in Suffixes}
        \cup {BareId(id)}

VideoUrls == UNION {ShapesOf(id) : id \in Ids}

\* an ID cut to 10 characters, and an ID with a character outside the class
ShortIds == {SubSeq(id, 1, IdLen - 1) : id \in Ids}
BadIds == {SubSeq(id, 1, IdLen - 1) \o <<c>> : id \in Ids, c \in {"!", "/"}}

\* strings that none of the patterns matches
NonVideoStrings ==
    {<<>>, <<"h", "t", "t", "p", "s", ":", "/", "/", "v", "i", "m", "e", "o", ".", "c",
       "o", "m", "/">> \o <<"7", "6", "9", "7", "9", "8", "7", "1">>,
     <<"h", "t", "t", "p", "s", ":", "/", "/", "w", "w", "w", ".", "y", "o", "u", "t", "u",
        "b", "e", ".", "c", "o", "m", "/", "s", "h", "o", "r", "t", "s", "/">> \o VideoId,
     <<"h", "t", "t", "p", "s", ":", "/", "/", "w", "w", "w", ".", "y", "o", "u", "t", "u",
        "b", "e", ".", "c", "o", "m", "/", "w", "a", "t", "c", "h", "?", "f", "e", "a",
        "t", "u", "r", "e", "=", "s", "h", "a", "r", "e", "&", "v", "=">> \o VideoId,
     <<"h", "t", "t", "p", "s", ":", "/", "/", "w", "w", "w", ".", "y", "o", "u", "t", "u",
        "b", "e", ".", "c", "o", "m", "/", "p", "l", "a", "y", "l", "i", "s", "t", "?",
        "l", "i", "s", "t", "=">> \o VideoId,
     VideoId \o <<"X">>, <<"X">> \o VideoId, VideoId \o <<" ">>}
        \cup ShortIds \cup BadIds
        \cup {WatchUrl(s, b, x) : s \in Schemes, b \in ShortIds, x \in Suffixes \ {<<>>}}
        \cup {ShortUrl(s, b, <<>>) : s \in Schemes, b \in ShortIds \cup BadIds}
        \cup {EmbedUrl(s, b, <<>>) : s \in Schemes, b \in ShortIds \cup BadIds}

\* strings a pattern matches although what follows the prefix is longer than
\* an ID, or the ID is followed by a newline
LooseStrings ==
    {ShortUrl(<<>>, VideoId \o <<"X">>, <<>>), VideoId \o <<"\n">>}

UrlInputs == VideoUrls \cup NonVideoStrings \cup LooseStrings

extract_step ==
    /\ pc = "extract"
    /\ \E u \in UrlInputs :
         /\ url' = u
         /\ video_id' = extract_video_id(u)
    /\ pc' = "extracted"
    /\ UNCHANGED <<config, handler, backend, quality, info, selected_format, tmpfile,
                   invoked, fetched, s3_objects, http_response, pipedFrame, attempts,
                   outcome, raw>>

InitVideoId ==
    /\ Quiet
    /\ pc = "extract"
    /\ video_id = <<>>
    /\ PIPED_SELF_HOSTED_URL = ""
    /\ PIPED_INSTANCES = SubSeq(InstancePool, 1, 1)
    /\ PIPED_MAX_ATTEMPTS = 1
    /\ DEFAULT_BACKEND = "yt-dlp"

NextVideoId == extract_step

SpecVideoId == InitVideoId /\ [][NextVideoId]_vars

\* C11: for every ID, extract_video_id returns that ID from the watch URL,
\* the short-link URL, the embed URL and the bare ID of the video; whatever it
\* returns is 11 characters that are letters, digits, hyphen or underscore;
\* and for a string that none of the patterns matches it returns None (no ID).
\* The short link "https://youtu.be/dQw4w9WgXcQ" gives "dQw4w9WgXcQ".
C11_SameIdForEveryShape ==
    (pc = "extracted") =>
        /\ \A id \in Ids : url \in ShapesOf(id) => video_id = id
        /\ video_id # <<>> =>
              /\ Len(video_id) = IdLen
              /\ \A k \in 1..IdLen : video_id[k] \in IdChars
        /\ url \in NonVideoStrings => video_id = <<>>
        /\ url = ShortUrl(<<"h", "t", "t", "p", "s", ":", "/",
           "/">>, VideoId, <<>>) => video_id = VideoId

\* C11 witness: the embed URL of an ID with a hyphen and an underscore has
\* been resolved to that ID
C11_Witness ==
    /\ pc = "extracted"
    /\ \E id \in Ids :
         /\ id[1] = "-" /\ id[2] = "_"
         /\ url = EmbedUrl(<<"h", "t", "t", "p", "s", ":", "/", "/", "w", "w", "w", ".">>, id, <<>>)
         /\ video_id = id

(***************************************************************************)
(* SpecAttempt: the pool mode of get_video_info_piped with the answer of   *)
(* the last finished attempt kept in raw, so that what the attempt made of *)
(* the response can be read off the state.                                 *)
(***************************************************************************)
MaxPool == 2

InitAttempt ==
    /\ Quiet
    /\ pc = "piped_call"
    /\ video_id = VideoId
    /\ PIPED_SELF_HOSTED_URL = ""
    /\ \E n \in 1..MaxPool : PIPED_INSTANCES = SubSeq(InstancePool, 1, n)
    /\ PIPED_MAX_ATTEMPTS \in 0..MaxPool
    /\ DEFAULT_BACKEND = "yt-dlp"

NextAttempt == piped_enter \/ piped_next \/ piped_response_kept

SpecAttempt == InitAttempt /\ [][NextAttempt]_vars

\* the attempts that an endpoint has answered
Answered == {i \in 1..Len(attempts) : attempts[i].status # "pending"}

LastAnswered == CHOOSE i \in Answered : \A j \in Answered : j <= i

\* the response is a redirect: one of the statuses 301, 302, 307, 308, or a
\* redirect status together with a Location header
Redirected(response) ==
    (response.location /\ response.status \in {301, 302, 303, 307, 308})
        \/ response.status \in {301, 302, 307, 308}

\* a field that is there and holds something
Filled(field) == field \notin {<<>>, <<"">>}

\* What C12 says of the last answered attempt and its response, for a given
\* reading HasError of "the payload has an error field".
AttemptOutcome(HasError(_)) ==
    Answered # {} =>
        LET a == attempts[LastAnswered]
            response == raw
            object == response.net /\ response.json = "object"
        IN  /\ a.status = "ok" =>
                  /\ response.net
                  /\ ~Redirected(response)
                  /\ response.json # "none"
                  /\ ~HasError(response)
                  /\ response.status < 400
                  /\ Filled(response.title)
            /\ ((object /\ HasError(response))
                   \/ (response.net /\ response.status >= 400)
                   \/ (object /\ ~Filled(response.title))
                   \/ ~response.net) => a.status = "failed"
            /\ a.status = "failed" =>
                  /\ ~outcome.ok
                  /\ idx = LastAnswered + 1
                  /\ pc = "piped_wait" =>
                        /\ Len(attempts) = LastAnswered + 1
                        /\ attempts[Len(attempts)].instance = instances[idx]
                  /\ pc = "adapter_done" =>
                        /\ outcome.exc = AllFailed(tried, a.error)
                        /\ tried >= PIPED_MAX_ATTEMPTS \/ idx > Len(instances)
                  /\ pc \in {"piped_loop", "piped_wait", "adapter_done"}

\* C12 as stated: an attempt succeeds only if the response is no redirect,
\* its body parses as JSON, the payload has no "error" field, the status is
\* below 400 and the title is there and not empty; an error field, a status
\* of 400 or more, or a missing or empty title makes the attempt fail; and in
\* pool mode every failed attempt (a network error or timeout too) makes the
\* loop go on to the next endpoint instead of ending the resolution.
C12_NoErrorField == AttemptOutcome(LAMBDA response : response.error # <<>>)

\* C12, amended: the same with "error field" read as an "error" field that
\* holds a non-empty value; the resolution ends after a failed attempt only
\* with the aggregate error, when the pool or the attempt cap is used up.
C12_NoErrorValue == AttemptOutcome(LAMBDA response : Filled(response.error))

\* C12 witness: in pool mode the first endpoint answered 200 with a title and
\* an error message, the attempt failed with "API error", and the request to
\* the next endpoint of the shuffled pool is under way
C12_Witness ==
    /\ pc = "piped_wait"
    /\ Len(attempts) = 2
    /\ attempts[1].status = "failed"
    /\ attempts[1].error.text = "API error"
    /\ raw.status = 200 /\ Filled(raw.title) /\ Filled(raw.error)
    /\ attempts[2].status = "pending"
    /\ attempts[2].instance = instances[2]

(***************************************************************************)
(* SpecStreams: _parse_piped_streams applied to a response's videoStreams. *)
(* Every entry carries its position in the response as its itag, which     *)
(* tells in the output which entry a candidate was made from.              *)
(***************************************************************************)
StreamLabels == {<<"3", "6", "0", "p">>, <<"h", "d">>}

StreamEntries ==
    {Stream(u, h, q, 0, vo) :
        u \in {<<>>, CdnUrl}, h \in Heights, q \in StreamLabels,
        vo \in {"true", "false", "absent"}}

Numbered(streams) == [i \in 1..Len(streams) |-> [streams[i] EXCEPT !.itag = i]]

StreamLists == {Numbered(streams) : streams \in SeqsUpTo(StreamEntries, MaxStreams)}

parse_streams ==
    /\ pc = "parse_streams"
    /\ \E videoStreams \in StreamLists :
         /\ raw' = videoStreams
         /\ outcome' = Return(_parse_piped_streams(videoStreams))
    /\ pc' = "streams_parsed"
    /\ UNCHANGED <<config, request, info, sink, invoked, http_response, pipedFrame,
                   attempts>>

InitStreams ==
    /\ Quiet
    /\ pc = "parse_streams"
    /\ video_id = <<>>
    /\ PIPED_SELF_HOSTED_URL = ""
    /\ PIPED_INSTANCES = SubSeq(InstancePool, 1, 1)
    /\ PIPED_MAX_ATTEMPTS = 1
    /\ DEFAULT_BACKEND = "yt-dlp"

NextStreams == parse_streams

SpecStreams == InitStreams /\ [][NextStreams]_vars

\* the entries of the response that have a URL and a positive height, given
\* or read from the label
Usable(streams) ==
    {i \in 1..Len(streams) : streams[i].url # <<>> /\ PipedHeight(streams[i]) > 0}

\* the combined entries among them that have the height h
CombinedAt(streams, h) ==
    {i \in Usable(streams) : streams[i].videoOnly = "false" /\ PipedHeight(streams[i]) = h}

\* the entry of the response that the candidate f was made from
SourceOf(streams, f) == {i \in 1..Len(streams) : IntChars(streams[i].itag) = f.itag}

\* C13: for every height for which the response has a combined stream with a
\* URL, the candidate of that height in the output of _parse_piped_streams is
\* the first such combined stream of the response, wherever it stands; a
\* video-only stream is in the output only for a height that no combined
\* stream has; and an entry without a URL, or whose height is not given and
\* not readable from its label, or is not positive, is never in the output.
C13_CombinedPreferred ==
    (pc = "streams_parsed") =>
        LET streams == raw
            out == outcome.value
            covered == {PipedHeight(streams[i]) :
                          i \in {j \in Usable(streams) : streams[j].videoOnly = "false"}}
        IN  /\ \A h \in covered :
                  LET first == CHOOSE i \in CombinedAt(streams, h) :
                                  \A j \in CombinedAt(streams, h) : i <= j
                      at == {k \in 1..Len(out) : out[k].height = h}
                  IN  /\ Cardinality(at) = 1
                      /\ \A k \in at : SourceOf(streams, out[k]) = {first}
            /\ \A k \in 1..Len(out) :
                  \E i \in Usable(streams) :
                     /\ SourceOf(streams, out[k]) = {i}
                     /\ out[k].height = PipedHeight(streams[i])
                     /\ out[k].url = streams[i].url
                     /\ streams[i].videoOnly # "false" => out[k].height \notin covered
            /\ \A i \in (1..Len(streams)) \ Usable(streams) :
                  \A k \in 1..Len(out) : SourceOf(streams, out[k]) # {i}

\* C13 witness: a video-only stream of height 360 comes first, a combined
\* stream whose height 360 is read from its label comes second, and the one
\* candidate of the output is the second entry
C13_Witness ==
    /\ pc = "streams_parsed"
    /\ Len(raw) = 2
    /\ raw[1].videoOnly = "true" /\ raw[1].height = 360 /\ raw[1].url # <<>>
    /\ raw[2].videoOnly = "false" /\ raw[2].height = 0 /\ raw[2].url # <<>>
    /\ Len(outcome.value) = 1
    /\ outcome.value[1].height = 360
    /\ outcome.value[1].itag = <<"2">>

====
